---- MODULE Spec2Model ----
(***************************************************************************)
(* State-machine model of rca_app_local.py, the Streamlit RCA report       *)
(* wizard.  One script run of the Streamlit app is one action; the         *)
(* session state (st.session_state) is the state of the model.             *)
(*                                                                         *)
(* Text is modelled as a sequence of one-character strings, so that        *)
(* strip(), lower(), upper(), float() and the "{:.2%}" format are computed *)
(* and not assumed.  The literal parts of f-strings are single tokens.     *)
(***************************************************************************)
EXTENDS Integers, Sequences, FiniteSets, TLC

VARIABLES
    rca_reports,        \* st.session_state.rca_reports: list of completed rca_data
    document,           \* st.session_state.document: list of paragraphs
    remaining_queues,   \* st.session_state.remaining_queues: <<>> is None, <<l>> is the list l
    current_rca_step,   \* st.session_state.current_rca_step
    rca_data,           \* st.session_state.rca_data: <<>> when the key is absent, <<d>> otherwise
    driver_text_area_key, \* st.session_state.driver_text_area_key
    widgets,            \* values of the keyed text inputs (queue selector and collect form)
    files,              \* marker image files that exist in temp_dir
    rerun,              \* TRUE when a script run is pending (first run, or after st.rerun())
    signals,            \* what the last script run showed (st.error / st.warning / download button)
    backend,            \* which content the health-report spreadsheet has now in the backend
    fetches,            \* history: the results of the catalog reads of this session, in order
    failures            \* history: the number of appends so far in which a call raised

vars == <<rca_reports, document, remaining_queues, current_rca_step, rca_data,
          driver_text_area_key, widgets, files, rerun, signals, backend, fetches,
          failures>>

-----------------------------------------------------------------------------
(* Text helpers: str.strip, str.lower, str.upper on character sequences.   *)

(* The letters of the model's texts.  "Y:" and "y:" stand for U+0178 and   *)
(* U+00FF, "d-" for U+00F0, ",," for U+201D, "'" for U+00B4, "!" for       *)
(* U+00A1 and "c|" for U+00A2: the characters of the status_map keys.      *)
Lowers == <<"a", "c", "e", "h", "i", "l", "m", "o", "p", "q", "r", "s", "t", "u", "v", "x", "d", "b", "n", "g", "f", "y:">>
Uppers == <<"A", "C", "E", "H", "I", "L", "M", "O", "P", "Q", "R", "S", "T", "U", "V", "X", "D", "B", "N", "G", "F", "Y:">>

LowerChar(c) ==
    IF \E i \in DOMAIN Uppers : Uppers[i] = c
    THEN Lowers[CHOOSE i \in DOMAIN Uppers : Uppers[i] = c]
    ELSE c

UpperChar(c) ==
    IF \E i \in DOMAIN Lowers : Lowers[i] = c
    THEN Uppers[CHOOSE i \in DOMAIN Lowers : Lowers[i] = c]
    ELSE c

Lower(s) == [i \in DOMAIN s |-> LowerChar(s[i])]
Upper(s) == [i \in DOMAIN s |-> UpperChar(s[i])]

RECURSIVE LStrip(_)
LStrip(s) == IF s # <<>> /\ Head(s) = " " THEN LStrip(Tail(s)) ELSE s

RECURSIVE RStrip(_)
RStrip(s) ==
    IF s # <<>> /\ s[Len(s)] = " " THEN RStrip(SubSeq(s, 1, Len(s) - 1)) ELSE s

Strip(s) == RStrip(LStrip(s))

-----------------------------------------------------------------------------
(* Numbers.  float(s) on the texts of the model: optional surrounding      *)
(* blanks, an optional sign, digits, optionally a point and more digits.   *)
(* The value is kept exactly as num / den with den a power of ten.         *)

Digits == <<"0", "1", "2", "3", "4", "5", "6", "7", "8", "9">>

IsDigit(c) == \E i \in DOMAIN Digits : Digits[i] = c
DigitVal(c) == (CHOOSE i \in DOMAIN Digits : Digits[i] = c) - 1

RECURSIVE DigitsVal(_)
DigitsVal(s) ==
    IF s = <<>> THEN 0 ELSE 10 * DigitsVal(SubSeq(s, 1, Len(s) - 1)) + DigitVal(s[Len(s)])

RECURSIVE Pow10(_)
Pow10(n) == IF n = 0 THEN 1 ELSE 10 * Pow10(n - 1)

AllDigits(s) == \A i \in DOMAIN s : IsDigit(s[i])

ValueError == [ok |-> FALSE, num |-> 0, den |-> 1]

ParseUnsigned(s) ==
    LET dots == {i \in DOMAIN s : s[i] = "."} IN
    IF dots = {} THEN
        IF s # <<>> /\ AllDigits(s)
        THEN [ok |-> TRUE, num |-> DigitsVal(s), den |-> 1]
        ELSE ValueError
    ELSE IF Cardinality(dots) = 1 THEN
        LET d == CHOOSE i \in dots : TRUE
            ip == SubSeq(s, 1, d - 1)
            fp == SubSeq(s, d + 1, Len(s))
        IN  IF AllDigits(ip) /\ AllDigits(fp) /\ Len(ip) + Len(fp) > 0
            THEN [ok |-> TRUE, num |-> DigitsVal(ip \o fp), den |-> Pow10(Len(fp))]
            ELSE ValueError
    ELSE ValueError

float(s) ==
    LET t == Strip(s) IN
    IF t # <<>> /\ Head(t) \in {"-", "+"} THEN
        LET u == ParseUnsigned(Tail(t)) IN
        IF u.ok /\ Head(t) = "-" THEN [u EXCEPT !.num = 0 - u.num] ELSE u
    ELSE ParseUnsigned(t)

Abs(n) == IF n < 0 THEN 0 - n ELSE n

RECURSIVE NatStr(_)
NatStr(n) == IF n < 10 THEN <<Digits[n + 1]>> ELSE NatStr(n \div 10) \o <<Digits[(n % 10) + 1]>>

(* round(p / q) to the nearest integer, ties to even, for p >= 0 and q > 0. *)
RoundHalfEven(p, q) ==
    LET f == p \div q
        r == p % q
    IN  IF 2 * r > q THEN f + 1
        ELSE IF 2 * r < q THEN f
        ELSE IF f % 2 = 0 THEN f ELSE f + 1

(* f"{abs(x):.2%}" for x = p / q >= 0: the value times 100 with two decimals. *)
FormatPercent2(p, q) ==
    LET h == RoundHalfEven(p * 10000, q) IN
    NatStr(h \div 100) \o <<".", Digits[((h % 100) \div 10) + 1], Digits[(h % 10) + 1], "%">>

-----------------------------------------------------------------------------
(* Configuration constants.                                                *)

QUEUE_COL_INDEX_IN_RANGE == 0
STATUS_COL_INDEX_IN_RANGE == 7
VOLUME_QUEUE_COL_INDEX == 3
VOLUME_VALUE_COL_INDEX == 2

(* Python's 0-based row[i]. *)
Cell(row, i) == row[i + 1]

-----------------------------------------------------------------------------
(* map_sheet_color_char_to_name: status_map.get(s.lower().strip(), None).  *)
(* The result is <<>> for None and <<name>> otherwise.                     *)

status_map ==
    << << <<"d-", "Y:", ",,", "'">>, "red" >>,
       << <<"d-", "Y:", "Y:", "!">>, "amber" >>,
       << <<"d-", "Y:", "Y:", "c|">>, "green" >>,
       << <<"r", "e", "d">>, "red" >>,
       << <<"a", "m", "b", "e", "r">>, "amber" >>,
       << <<"g", "r", "e", "e", "n">>, "green" >> >>

map_sheet_color_char_to_name(sheet_status_char) ==
    LET k == Strip(Lower(sheet_status_char))
        hits == {i \in DOMAIN status_map : status_map[i][1] = k}
    IN  IF hits = {} THEN <<>> ELSE <<status_map[CHOOSE i \in hits : TRUE][2]>>

HeaderLabels ==
    { <<"e", "m", "a", "i", "l", " ", "q", "u", "e", "u", "e", "s">>,
      <<"l", "i", "v", "e", " ", "q", "u", "e", "u", "e", "s">> }

(* The loop of get_all_relevant_queues_from_sheet over rows r_idx.. of the range. *)
RECURSIVE RelevantFrom(_, _)
RelevantFrom(all_data_rows, i) ==
    IF i > Len(all_data_rows) THEN <<>>
    ELSE
        LET row == all_data_rows[i]
            rest == RelevantFrom(all_data_rows, i + 1)
        IN  IF Len(row) <= STATUS_COL_INDEX_IN_RANGE THEN rest
            ELSE
                LET queue_name == Strip(Cell(row, QUEUE_COL_INDEX_IN_RANGE))
                    status_char == Strip(Cell(row, STATUS_COL_INDEX_IN_RANGE))
                    mapped_color == map_sheet_color_char_to_name(status_char)
                IN  IF queue_name = <<>> \/ Lower(queue_name) \in HeaderLabels THEN rest
                    ELSE IF mapped_color # <<>> /\ mapped_color[1] \in {"red", "amber"}
                    THEN << [QueueName |-> queue_name,
                             StatusColor |-> mapped_color[1],
                             RangeIndex |-> i - 1] >> \o rest
                    ELSE rest

(* sheet is [ok |-> BOOLEAN, rows |-> the rows worksheet.get(range) returns];  *)
(* ok = FALSE is a backend call that raises: every except branch returns []. *)
get_all_relevant_queues_from_sheet(sheet) ==
    IF ~sheet.ok THEN <<>>
    ELSE IF sheet.rows = <<>> THEN <<>>
    ELSE RelevantFrom(sheet.rows, 1)

(* get_actual_volume_from_sheet: <<>> for None, <<text>> for the value found. *)
RECURSIVE VolumeScan(_, _, _)
VolumeScan(all_data_rows, i, queue_name_to_lookup) ==
    IF i > Len(all_data_rows) THEN [raised |-> FALSE, value |-> <<>>]
    ELSE
        LET row == all_data_rows[i] IN
        IF Len(row) > VOLUME_VALUE_COL_INDEX THEN
            IF Len(row) <= VOLUME_QUEUE_COL_INDEX
            THEN [raised |-> TRUE, value |-> <<>>]   \* row[queue_col_idx]: IndexError
            ELSE
                LET sheet_queue_name == Strip(Cell(row, VOLUME_QUEUE_COL_INDEX))
                    sheet_volume_value == Strip(Cell(row, VOLUME_VALUE_COL_INDEX))
                IN  IF Lower(sheet_queue_name) = Lower(queue_name_to_lookup)
                    THEN [raised |-> FALSE, value |-> <<sheet_volume_value>>]
                    ELSE VolumeScan(all_data_rows, i + 1, queue_name_to_lookup)
        ELSE VolumeScan(all_data_rows, i + 1, queue_name_to_lookup)

get_actual_volume_from_sheet(sheet, queue_name_to_lookup) ==
    IF ~sheet.ok THEN <<>>
    ELSE IF sheet.rows = <<>> THEN <<>>
    ELSE VolumeScan(sheet.rows, 2, queue_name_to_lookup).value

-----------------------------------------------------------------------------
(* The variance sentences of the collect_inputs step.                      *)

(* abs(actual / required - 1) formatted with .2%, for required # 0. *)
VarianceFormatted(required, actual) ==
    FormatPercent2(Abs(actual.num * required.den - required.num * actual.den),
                   Abs(required.num * actual.den))

(* Mutant of Greater: ">=" for ">". *)
GreaterOrEqual(actual, required) == actual.num * required.den >= required.num * actual.den

(* actual > required on the parsed values (both denominators are positive). *)
Greater(actual, required) == actual.num * required.den > required.num * actual.den

(* Mutant of IsZero: the sign test "< 0" for "== 0". *)
IsNegative(value) == value.num < 0

(* required == 0 (lines 360 and 406). *)
IsZero(value) == value.num = 0

(* What actual / required raises for required == 0.  It is not a           *)
(* ValueError, so neither except clause (lines 370, 416) would catch it;   *)
(* the text stands for the exception that ends the script run.             *)
ZeroDivisionError == <<"ZeroDivisionError: float division by zero">>

VarianceSentence(required, actual) ==
    IF required.num = 0 THEN ZeroDivisionError
    ELSE IF Greater(actual, required)
    THEN <<"Incoming volume was ">> \o VarianceFormatted(required, actual)
            \o <<" higher than forecasted.">>
    ELSE <<"Incoming volume was ">> \o VarianceFormatted(required, actual)
            \o <<" lower than forecasted.">>

(* Lines 400-420: the demand variance text from the two text inputs. *)
DemandVarianceText(forecasted_volume_str, actual_volume_str) ==
    IF forecasted_volume_str # <<>> /\ actual_volume_str # <<>> THEN
        LET forecasted_volume == float(forecasted_volume_str)
            actual_volume == float(actual_volume_str)
        IN  IF ~forecasted_volume.ok \/ ~actual_volume.ok
            THEN <<"Error: Invalid numeric input for forecasted or actual volume. Cannot calculate variance.">>
            ELSE IF IsZero(forecasted_volume)
            THEN <<"Cannot calculate variance: Forecasted volume is zero.">>
            ELSE VarianceSentence(forecasted_volume, actual_volume)
    ELSE <<>>

(* Lines 354-371: the live-channel result text (both inputs are non-empty). *)
LiveResultText(required_hours_live_channels_str, actual_live_channel_hours_str) ==
    LET required_hours_live_channels == float(required_hours_live_channels_str)
        actual_live_channel_hours == float(actual_live_channel_hours_str)
    IN  IF ~required_hours_live_channels.ok \/ ~actual_live_channel_hours.ok
        THEN <<"Error: Invalid numeric input. Cannot calculate variance.">>
        ELSE IF IsZero(required_hours_live_channels)
        THEN <<"Cannot calculate variance: Required hours to handle forecasted volume is zero.">>
        ELSE VarianceSentence(required_hours_live_channels, actual_live_channel_hours)

(* Mutant of RcaType: the email band ends at 14. *)
RcaTypeEmailTo14(selected_row_index) ==
    IF 1 <= selected_row_index /\ selected_row_index <= 14 THEN "emails" ELSE "phone"

(* Lines 316-326: the channel type from the row index, and whether the     *)
(* unexpected-row warning is shown.                                        *)
RcaType(selected_row_index) ==
    IF 1 <= selected_row_index /\ selected_row_index <= 13 THEN "emails"
    ELSE IF 17 <= selected_row_index /\ selected_row_index <= 24 THEN "phone"
    ELSE "phone"

UnexpectedRow(selected_row_index) ==
    ~(1 <= selected_row_index /\ selected_row_index <= 13)
    /\ ~(17 <= selected_row_index /\ selected_row_index <= 24)

-----------------------------------------------------------------------------
(* The document backend: a python-docx Document is its list of paragraphs. *)

Paragraph(style, text, picture) == [style |-> style, text |-> text, picture |-> picture]

BlankParagraph == Paragraph("Normal", <<>>, "none")

RECURSIVE Bullets(_)
Bullets(lines) ==
    IF lines = <<>> THEN <<>>
    ELSE <<Paragraph("List Bullet", Head(lines), "none")>> \o Bullets(Tail(lines))

(* Lines 188-190: two empty paragraphs before every record after the first. *)
SeparatorPart(reports) == IF Len(reports) > 0 THEN <<BlankParagraph, BlankParagraph>> ELSE <<>>

(* Lines 196-202. *)
TitlePart(d) ==
    <<Paragraph("Heading 1", <<" ">> \o Upper(d.title_skill), d.report_color)>>

(* Lines 205-212. *)
SupplyPart(d) ==
    <<Paragraph("Heading 2", <<"Supply">>, "none")>> \o Bullets(d.supply_word_lines)

(* Lines 215-222. *)
DemandPart(d) ==
    << Paragraph("Heading 2", <<"Demand">>, "none"),
       Paragraph("List Bullet", <<"Forecast volume was ">> \o d.forecasted_volume_str \o <<".">>, "none"),
       Paragraph("List Bullet", <<"Actual volume was ">> \o d.actual_volume_str \o <<".">>, "none"),
       Paragraph("List Bullet", d.variance_text, "none") >>

(* Lines 225-232. *)
DriversPart(d) ==
    <<Paragraph("Heading 2", <<"Main Drivers & Mitigation actions">>, "none")>>
        \o Bullets(d.drivers_list)

(* Where a call of the document backend or of the image helper raises in   *)
(* process_single_rca_to_document: nowhere, at line 189, 193, 198, 205,    *)
(* 215 or 225.                                                             *)
FailPoints == {"none", "separator", "image", "picture", "demand"}

(* The paragraphs added to the document before the call at `fail` raises. *)
AddedBefore(reports, d, fail) ==
    CASE fail = "separator" -> <<>>
      [] fail = "image"     -> SeparatorPart(reports)
      [] fail = "picture"   -> SeparatorPart(reports) \o <<BlankParagraph>>
      [] fail = "supply"    -> SeparatorPart(reports) \o TitlePart(d)
      [] fail = "demand"    -> SeparatorPart(reports) \o TitlePart(d) \o SupplyPart(d)
      [] fail = "drivers"   -> SeparatorPart(reports) \o TitlePart(d) \o SupplyPart(d) \o DemandPart(d)
      [] OTHER              -> SeparatorPart(reports) \o TitlePart(d) \o SupplyPart(d)
                                   \o DemandPart(d) \o DriversPart(d)

(* Line 234 is reached only when nothing raised. *)
ReportsAfter(reports, d, fail) == IF fail = "none" THEN Append(reports, d) ELSE reports

(* The finally block reads circle_image_path, which line 193 binds: when   *)
(* line 189 or 193 raised, the name is unbound and the read raises out of  *)
(* the function.                                                           *)
PathUnbound(fail) == fail \in {"separator", "image"}

(* process_single_rca_to_document(rca_data) with the backend failing at `fail`. *)
process_single_rca_to_document(doc, reports, fs, d, fail) ==
    [ document    |-> doc \o AddedBefore(reports, d, fail),
      rca_reports |-> ReportsAfter(reports, d, fail),
      files       |-> IF PathUnbound(fail) THEN fs ELSE (fs \cup {d.report_color}) \ {d.report_color},
      error       |-> fail # "none",
      raised      |-> PathUnbound(fail) ]

-----------------------------------------------------------------------------
(* The spreadsheet backend.  A sheet is [ok, rows]; ok = FALSE is a read   *)
(* that raises.  Rows are as gspread returns them: trailing empty cells    *)
(* are dropped, so a row without a status cell is short.                   *)

E == <<>>
Row(name, status) == <<name, E, E, E, E, E, E, status>>

QueueRowsA(i) ==
    CASE i = 0  -> <<<<"E", "m", "a", "i", "l", " ", "Q", "u", "e", "u", "e", "s">>>>
      [] i = 5  -> Row(<<"S", "u", "p", "p", "o", "r", "t", " ">>, <<"A", "m", "b", "e", "r">>)
      [] i = 7  -> Row(<<"O", "p", "s">>, <<"g", "r", "e", "e", "n">>)
      [] i = 16 -> Row(<<"L", "i", "v", "e", " ", "Q", "u", "e", "u", "e", "s">>, <<"r", "e", "d">>)
      [] i = 20 -> Row(<<"S", "a", "l", "e", "s">>, <<" ", "R", "E", "D">>)
      [] OTHER  -> <<>>

QueueRowsB(i) ==
    CASE i = 5  -> Row(<<"S", "u", "p", "p", "o", "r", "t">>, <<"G", "r", "e", "e", "n">>)
      [] i = 14 -> Row(<<"C", "h", "a", "t">>, <<"r", "e", "d">>)
      [] i = 22 -> Row(<<"V", "i", "p">>, <<"a", "m", "b", "e", "r">>)
      [] OTHER  -> QueueRowsA(i)

SheetA == [ok |-> TRUE, rows |-> [i \in 1..21 |-> QueueRowsA(i - 1)]]
SheetB == [ok |-> TRUE, rows |-> [i \in 1..23 |-> QueueRowsB(i - 1)]]
SheetEmpty == [ok |-> TRUE, rows |-> <<>>]
SheetDown == [ok |-> FALSE, rows |-> <<>>]

(* The states of the health-report sheet the model's backend can be in. *)
Sheets == {"A", "B", "empty", "down"}

Sheet(name) ==
    CASE name = "A"     -> SheetA
      [] name = "B"     -> SheetB
      [] name = "empty" -> SheetEmpty
      [] OTHER          -> SheetDown

(* The volume sheet: a header row, then rows with the value in column 2    *)
(* and the queue name in column 3.                                         *)
VolumeSheet ==
    [ok |-> TRUE,
     rows |-> << <<<<"d">>, <<"x">>, <<"v">>, <<"q">>>>,
                 <<E, E, <<"1", "2", "0">>, <<"s", "u", "p", "p", "o", "r", "t">>>>,
                 <<E, E, <<" ", "9">>, <<"O", "p", "s", " ">>>> >>]

-----------------------------------------------------------------------------
(* Session state.                                                          *)

None == <<>>
Some(x) == <<x>>

(* The keyed text inputs.  A text input holds "" until the user edits it   *)
(* and loses its value in a run that does not render it;                   *)
(* actual_volume_input is None until its first render gives it the         *)
(* looked-up default.                                                      *)
FreshWidgets ==
    [ queue_selector_text_input |-> <<>>,
      req_email_hours      |-> <<>>,
      req_email_new_demand |-> <<>>,
      actual_email_hours   |-> <<>>,
      req_live_hours       |-> <<>>,
      actual_live_hours    |-> <<>>,
      forecasted_volume    |-> <<>>,
      actual_volume_input  |-> None ]

EmailFields == {"req_email_hours", "req_email_new_demand", "actual_email_hours"}
LiveFields == {"req_live_hours", "actual_live_hours"}
DemandFields == {"forecasted_volume", "actual_volume_input"}

(* Lines 298-302: the dict a selection creates.  The keys the collect step *)
(* adds later are held here with empty values until it sets them.          *)
NewRcaData(selected_item) ==
    [ title_skill                 |-> selected_item.QueueName,
      report_color                |-> selected_item.StatusColor,
      selected_row_index_in_range |-> selected_item.RangeIndex,
      rca_type                    |-> "",
      supply_word_lines           |-> <<>>,
      variance_text               |-> <<>>,
      drivers_list                |-> <<>>,
      forecasted_volume_str       |-> <<>>,
      actual_volume_str           |-> <<>> ]

(* Lines 165-179, and the state st.session_state.clear() leaves to the     *)
(* next run, which starts with these lines.                                *)
InitSession ==
    /\ rca_reports = <<>>
    /\ document = <<>>
    /\ remaining_queues = None
    /\ current_rca_step = "select_queue"
    /\ rca_data = None
    /\ driver_text_area_key = 0
    /\ widgets = FreshWidgets
    /\ rerun = TRUE
    /\ signals = {}
    /\ fetches = <<>>
    /\ failures = 0

Init ==
    /\ InitSession
    /\ files = {}
    /\ backend \in Sheets

-----------------------------------------------------------------------------
(* The select_queue step, lines 250-310.                                   *)

(* Mutant of int: the sign is dropped. *)
intIgnoringSign(s) ==
    LET t == Strip(s)
        body == IF t # <<>> /\ Head(t) \in {"-", "+"} THEN Tail(t) ELSE t
    IN  IF body # <<>> /\ AllDigits(body)
        THEN [ok |-> TRUE, num |-> DigitsVal(body)]
        ELSE [ok |-> FALSE, num |-> 0]

(* int(s): an optional sign and digits; anything else is a ValueError. *)
int(s) ==
    LET t == Strip(s)
        body == IF t # <<>> /\ Head(t) \in {"-", "+"} THEN Tail(t) ELSE t
    IN  IF body # <<>> /\ AllDigits(body)
        THEN [ok |-> TRUE,
              num |-> IF Head(t) = "-" THEN 0 - DigitsVal(body) ELSE DigitsVal(body)]
        ELSE [ok |-> FALSE, num |-> 0]

(* Mutant of Pop: list.pop() without the index removes the last entry. *)
PopLast(list, i) == SubSeq(list, 1, Len(list) - 1)

(* list.pop(i) for a 0-based i in range. *)
Pop(list, i) == SubSeq(list, 1, i) \o SubSeq(list, i + 2, Len(list))

(* Mutant of MustFetch: "if not remaining_queues" also reads on an empty list. *)
MustFetchWhenFalsy(cached) == cached = None \/ cached[1] = <<>>

(* Line 252: the catalog is read when the cached value is None. *)
MustFetch(cached) == cached = None

(* Line 295. *)
ValidChoice(choice_idx, list) == 0 <= choice_idx /\ choice_idx < Len(list)

FINISH == <<"f", "i", "n", "i", "s", "h">>

(* Mutant of StepOnEmptyList: the step becomes "finish" also with no report. *)
StepOnEmptyListAlwaysFinish(reports, step) == "finish"

(* Lines 270-275: the step after a run that finds the list empty. *)
StepOnEmptyList(reports, step) == IF Len(reports) > 0 THEN "finish" ELSE step

(* One script run in step select_queue with `raw` in the text input; the   *)
(* input is rendered, and keeps its value, when the list is not empty.     *)
SelectQueueRun(raw) ==
    LET fetched == MustFetch(remaining_queues)
        list == IF fetched
                THEN get_all_relevant_queues_from_sheet(Sheet(backend))
                ELSE remaining_queues[1]
        selected_option_str == Lower(Strip(raw))
        choice == int(selected_option_str)
        choice_idx == choice.num - 1
    IN  /\ fetches' = IF fetched THEN Append(fetches, list) ELSE fetches
        /\ widgets' = IF list = <<>> THEN FreshWidgets
                      ELSE [FreshWidgets EXCEPT !.queue_selector_text_input = raw]
        /\ UNCHANGED <<rca_reports, document, driver_text_area_key, files, backend, failures>>
        /\ IF list = <<>> THEN
               /\ remaining_queues' = Some(list)
               /\ rca_data' = rca_data
               /\ rerun' = FALSE
               /\ current_rca_step' = StepOnEmptyList(rca_reports, current_rca_step)
               /\ signals' = IF Len(rca_reports) > 0
                             THEN {"no_queues_found", "all_processed"}
                             ELSE {"no_queues_found", "no_document", "stopped"}
           ELSE IF selected_option_str = <<>> THEN
               /\ remaining_queues' = Some(list)
               /\ UNCHANGED <<rca_data, current_rca_step>>
               /\ rerun' = FALSE
               /\ signals' = {"select_form"}
           ELSE IF selected_option_str = FINISH THEN
               /\ remaining_queues' = Some(list)
               /\ rca_data' = rca_data
               /\ current_rca_step' = "finish"
               /\ rerun' = TRUE
               /\ signals' = {"select_form"}
           ELSE IF ~choice.ok THEN
               /\ remaining_queues' = Some(list)
               /\ UNCHANGED <<rca_data, current_rca_step>>
               /\ rerun' = FALSE
               /\ signals' = {"select_form", "invalid_input"}
           ELSE IF ValidChoice(choice_idx, list) THEN
               /\ rca_data' = Some(NewRcaData(list[choice_idx + 1]))
               /\ remaining_queues' = Some(Pop(list, choice_idx))
               /\ current_rca_step' = "collect_inputs"
               /\ rerun' = TRUE
               /\ signals' = {"select_form"}
           ELSE
               /\ remaining_queues' = Some(list)
               /\ UNCHANGED <<rca_data, current_rca_step>>
               /\ rerun' = FALSE
               /\ signals' = {"select_form", "invalid_number"}

(* What the user may type into the queue selector. *)
SelectorTexts ==
    { <<"F", "i", "n", "i", "s", "h", " ">>, <<"x">>, <<"0">>, <<"-", "1">>,
      <<"1">>, <<" ", "2">>, <<"3">>, <<"4">> }

(* The user submits the queue selector: it is there when the last run of   *)
(* the step rendered it.                                                   *)
SelectQueueInput(raw) ==
    /\ current_rca_step = "select_queue"
    /\ ~rerun
    /\ "select_form" \in signals
    /\ raw # widgets.queue_selector_text_input
    /\ SelectQueueRun(raw)

-----------------------------------------------------------------------------
(* The collect_inputs step, lines 313-457.                                 *)

(* Mutant of EmailSupplyLines: the lines are written without the actual hours. *)
EmailSupplyLinesPartial(required_email_hours, required_email_hours_new_demand, actual_email_hours) ==
    IF required_email_hours # <<>> /\ required_email_hours_new_demand # <<>>
    THEN << <<"Required email hours to handle incoming volumes and existing backlog was ">>
                \o required_email_hours \o <<".">>,
            <<"Required email hours to handle incoming volumes was ">>
                \o required_email_hours_new_demand \o <<".">> >>
    ELSE <<>>

(* Lines 331-346: the email supply lines from the three text inputs. *)
EmailSupplyLines(required_email_hours, required_email_hours_new_demand, actual_email_hours) ==
    IF required_email_hours # <<>> /\ required_email_hours_new_demand # <<>>
          /\ actual_email_hours # <<>>
    THEN << <<"Required email hours to handle incoming volumes and existing backlog was ">>
                \o required_email_hours \o <<".">>,
            <<"Required email hours to handle incoming volumes was ">>
                \o required_email_hours_new_demand \o <<".">>,
            <<"Actual email hours were ">> \o actual_email_hours \o <<".">> >>
    ELSE <<>>

(* Lines 350-379: the live-channel supply lines from the two text inputs. *)
LiveSupplyLines(required_hours_live_channels_str, actual_live_channel_hours_str) ==
    IF required_hours_live_channels_str # <<>> /\ actual_live_channel_hours_str # <<>>
    THEN << <<"Required hours to handle forecasted volume were ">>
                \o required_hours_live_channels_str \o <<".">>,
            <<"Actual hours were ">> \o actual_live_channel_hours_str \o <<".">>,
            LiveResultText(required_hours_live_channels_str, actual_live_channel_hours_str) >>
    ELSE <<>>

SupplyLines(rca_type, w) ==
    IF rca_type = "emails"
    THEN EmailSupplyLines(w.req_email_hours, w.req_email_new_demand, w.actual_email_hours)
    ELSE LiveSupplyLines(w.req_live_hours, w.actual_live_hours)

(* Lines 385-398: the actual-volume input shows the looked-up value the    *)
(* first time it is rendered and the user's text afterwards.               *)
ActualVolumeValue(w, title_skill) ==
    IF w.actual_volume_input = None
    THEN LET auto == get_actual_volume_from_sheet(VolumeSheet, title_skill)
         IN  IF auto # None THEN auto[1] ELSE <<>>
    ELSE w.actual_volume_input[1]

(* Mutant of CanComplete: the drivers are not looked at. *)
CanCompleteWithoutDrivers(d) ==
    d.supply_word_lines # <<>> /\ d.variance_text # <<>>

(* Lines 450-452: what the complete button requires. *)
CanComplete(d) ==
    d.supply_word_lines # <<>> /\ d.variance_text # <<>> /\ d.drivers_list # <<>>

(* Line 433: the add button appends only a non-blank entry. *)
AddsDriver(driver_input) == Strip(driver_input) # <<>>

(* Mutant of AddDriver: an entry that is already in the list is not added. *)
AddDriverUnlessPresent(drivers_list, driver_input) ==
    IF \E k \in DOMAIN drivers_list : drivers_list[k] = Strip(driver_input)
    THEN drivers_list
    ELSE Append(drivers_list, Strip(driver_input))

(* Line 434. *)
AddDriver(drivers_list, driver_input) == Append(drivers_list, Strip(driver_input))

(* Mutant of StepAfterComplete: back to the selection. *)
StepAfterCompleteIsSelect == "select_queue"

(* Line 454: the step after process_single_rca_to_document returned. *)
StepAfterComplete == "review_rca"

(* One script run in step collect_inputs: w are the widget values, button  *)
(* is the button clicked ("none", "add", "complete"), driver_input the     *)
(* content of the driver text area, fail where the document backend raises *)
(* if the run gets to appending.                                           *)
CollectRun(w, button, driver_input, fail) ==
    LET d0 == rca_data[1]
        selected_row_index == d0.selected_row_index_in_range
        rca_type == RcaType(selected_row_index)
        supply_word_lines == SupplyLines(rca_type, w)
        forecasted_volume_str == w.forecasted_volume
        actual_volume_str == ActualVolumeValue(w, d0.title_skill)
        variance_text == DemandVarianceText(forecasted_volume_str, actual_volume_str)
        shown == {"collect_form"}
                 \cup (IF UnexpectedRow(selected_row_index) THEN {"unexpected_row"} ELSE {})
                 \cup (IF supply_word_lines = <<>> THEN {"fill_supply"} ELSE {})
                 \cup (IF variance_text = <<>> THEN {"fill_demand"} ELSE {})
        d1 == [d0 EXCEPT !.rca_type = rca_type,
                         !.supply_word_lines = supply_word_lines,
                         !.variance_text = variance_text]
        d2 == [d1 EXCEPT !.forecasted_volume_str = forecasted_volume_str,
                         !.actual_volume_str = actual_volume_str]
        out == process_single_rca_to_document(document, rca_reports, files, d2, fail)
    IN  /\ widgets' = [w EXCEPT !.actual_volume_input = Some(actual_volume_str),
                                !.queue_selector_text_input = <<>>]
        /\ UNCHANGED <<remaining_queues, backend, fetches>>
        /\ failures' = IF button = "complete" /\ CanComplete(d2) /\ out.error
                       THEN failures + 1 ELSE failures
        /\ IF button = "add" /\ AddsDriver(driver_input) THEN
               \* lines 434-437: st.rerun() ends the run before lines 446-447
               /\ rca_data' = Some([d1 EXCEPT !.drivers_list = AddDriver(@, driver_input)])
               /\ driver_text_area_key' = driver_text_area_key + 1
               /\ rerun' = TRUE
               /\ signals' = shown
               /\ UNCHANGED <<rca_reports, document, current_rca_step, files>>
           ELSE IF button = "complete" /\ CanComplete(d2) THEN
               /\ rca_data' = Some(d2)
               /\ document' = out.document
               /\ rca_reports' = out.rca_reports
               /\ files' = out.files
               /\ driver_text_area_key' = driver_text_area_key
               /\ IF out.raised
                  THEN /\ current_rca_step' = current_rca_step
                       /\ rerun' = FALSE
                       /\ signals' = shown \cup {"append_error", "exception"}
                  ELSE /\ current_rca_step' = StepAfterComplete
                       /\ rerun' = TRUE
                       /\ signals' = shown \cup (IF out.error THEN {"append_error"} ELSE {})
           ELSE
               /\ rca_data' = Some(d2)
               /\ rerun' = FALSE
               /\ signals' = shown \cup (IF button = "complete" THEN {"incomplete"} ELSE {})
               /\ UNCHANGED <<rca_reports, document, current_rca_step,
                              driver_text_area_key, files>>

(* What the user may type into the numeric inputs and the driver area. *)
NumberTexts == { <<>>, <<"8">> }
DriverTexts == { <<" ">>, <<" ", "a">> }

(* The most appends per session in which the model lets a call raise. *)
MaxFailures == 1

(* driver_text_area_key counts the drivers added in the session and has no *)
(* limit in the code: the model lets the user add this many per session.   *)
MaxDrivers == 2

FormReady ==
    /\ current_rca_step = "collect_inputs"
    /\ ~rerun
    /\ "collect_form" \in signals

RenderedFields ==
    DemandFields \cup (IF rca_data[1].rca_type = "emails" THEN EmailFields ELSE LiveFields)

(* The user changes one text input of the form. *)
EditInput(field, text) ==
    /\ FormReady
    /\ field \in RenderedFields
    /\ text # (IF field = "actual_volume_input" THEN widgets[field][1] ELSE widgets[field])
    /\ CollectRun([widgets EXCEPT ![field] =
                       IF field = "actual_volume_input" THEN Some(text) ELSE text],
                  "none", <<>>, "none")

(* The user clicks "Add Action" with driver_input in the text area. *)
AddAction(driver_input) ==
    /\ FormReady
    /\ driver_text_area_key < MaxDrivers
    /\ CollectRun(widgets, "add", driver_input, "none")

(* The user clicks "Complete RCA & Add to Report"; line 189 runs, and can  *)
(* raise, only when a record was completed before.                         *)
CompleteRca(fail) ==
    /\ FormReady
    /\ fail = "separator" => Len(rca_reports) > 0
    /\ fail # "none" => failures < MaxFailures
    /\ CollectRun(widgets, "complete", <<>>, fail)

-----------------------------------------------------------------------------
(* The review_rca step, lines 460-478, and the finish step, lines 481-503. *)

(* Mutant of OffersNext: "Process Next RCA" is offered also with no queue left. *)
OffersNextAlways(list) == Len(list) >= 0

(* Line 464: "Process Next RCA" is offered only with queues remaining. *)
OffersNext(list) == Len(list) > 0

(* Mutant of OffersDownload: the download is always offered. *)
OffersDownloadAlways(reports) == Len(reports) >= 0

(* Line 485: the download is offered when a record was completed. *)
OffersDownload(reports) == Len(reports) > 0

(* Mutant of ClearSession: the active record survives the reset. *)
ClearSessionKeepingRecord ==
    /\ rca_reports' = <<>>
    /\ document' = <<>>
    /\ remaining_queues' = None
    /\ current_rca_step' = "select_queue"
    /\ rca_data' = rca_data
    /\ driver_text_area_key' = 0
    /\ widgets' = FreshWidgets
    /\ rerun' = TRUE
    /\ signals' = {}
    /\ fetches' = <<>>
    /\ UNCHANGED <<files, backend, failures>>

(* Mutant of ClearSession: the cached queue list survives the reset. *)
ClearSessionKeepingCache ==
    /\ rca_reports' = <<>>
    /\ document' = <<>>
    /\ remaining_queues' = remaining_queues
    /\ current_rca_step' = "select_queue"
    /\ rca_data' = None
    /\ driver_text_area_key' = 0
    /\ widgets' = FreshWidgets
    /\ rerun' = TRUE
    /\ signals' = {}
    /\ fetches' = <<>>
    /\ UNCHANGED <<files, backend, failures>>

(* st.session_state.clear(); st.rerun(): the next run starts with lines    *)
(* 165-179.  The files on disk and the spreadsheet are not session state.  *)
ClearSession ==
    /\ rca_reports' = <<>>
    /\ document' = <<>>
    /\ remaining_queues' = None
    /\ current_rca_step' = "select_queue"
    /\ rca_data' = None
    /\ driver_text_area_key' = 0
    /\ widgets' = FreshWidgets
    /\ rerun' = TRUE
    /\ signals' = {}
    /\ fetches' = <<>>
    /\ UNCHANGED <<files, backend, failures>>

ReviewReady ==
    /\ current_rca_step = "review_rca"
    /\ ~rerun
    /\ "review_page" \in signals

(* Lines 466-468. *)
ProcessNext ==
    /\ ReviewReady
    /\ "next_button" \in signals
    /\ current_rca_step' = "select_queue"
    /\ rerun' = TRUE
    /\ UNCHANGED <<rca_reports, document, remaining_queues, rca_data,
                   driver_text_area_key, widgets, files, signals, backend, fetches, failures>>

(* Lines 472-474. *)
Finalize ==
    /\ ReviewReady
    /\ current_rca_step' = "finish"
    /\ rerun' = TRUE
    /\ UNCHANGED <<rca_reports, document, remaining_queues, rca_data,
                   driver_text_area_key, widgets, files, signals, backend, fetches, failures>>

(* Lines 476-478. *)
StartOver ==
    /\ ReviewReady
    /\ ClearSession

(* Lines 501-503. *)
StartNewSession ==
    /\ current_rca_step = "finish"
    /\ ~rerun
    /\ "finish_page" \in signals
    /\ ClearSession

(* A run of the review_rca step that no button ends. *)
ReviewRun ==
    /\ signals' = {"review_page"}
                  \cup (IF OffersNext(remaining_queues[1]) THEN {"next_button"} ELSE {"all_done"})
    /\ widgets' = FreshWidgets
    /\ rerun' = FALSE
    /\ UNCHANGED <<rca_reports, document, remaining_queues, current_rca_step, rca_data,
                   driver_text_area_key, files, backend, fetches, failures>>

(* Mutant of FinishRun: saving the document empties it. *)
FinishRunClearingDocument ==
    /\ signals' = {"finish_page"}
                  \cup (IF OffersDownload(rca_reports) THEN {"download"} ELSE {"no_report"})
    /\ widgets' = FreshWidgets
    /\ rerun' = FALSE
    /\ document' = IF OffersDownload(rca_reports) THEN <<>> ELSE document
    /\ UNCHANGED <<rca_reports, remaining_queues, current_rca_step, rca_data,
                   driver_text_area_key, files, backend, fetches, failures>>

(* A run of the finish step that no button ends: document.save() into a   *)
(* buffer leaves the document as it is.                                    *)
FinishRun ==
    /\ signals' = {"finish_page"}
                  \cup (IF OffersDownload(rca_reports) THEN {"download"} ELSE {"no_report"})
    /\ widgets' = FreshWidgets
    /\ rerun' = FALSE
    /\ UNCHANGED <<rca_reports, document, remaining_queues, current_rca_step, rca_data,
                   driver_text_area_key, files, backend, fetches, failures>>

(* A script run in which no widget changed and no button is clicked. *)
RunScript ==
    CASE current_rca_step = "select_queue"   ->
             SelectQueueRun(IF "select_form" \in signals
                            THEN widgets.queue_selector_text_input ELSE <<>>)
      [] current_rca_step = "collect_inputs" -> CollectRun(widgets, "none", <<>>, "none")
      [] current_rca_step = "review_rca"     -> ReviewRun
      [] OTHER                               -> FinishRun

(* The pending script run: the first run of a session and every run that   *)
(* st.rerun() starts.                                                      *)
ScriptRun ==
    /\ rerun
    /\ RunScript

(* The user reruns the script from the Streamlit menu. *)
ManualRerun ==
    /\ ~rerun
    /\ RunScript

(* The spreadsheet changes in the backend. *)
BackendChange(sheet) ==
    /\ sheet # backend
    /\ backend' = sheet
    /\ UNCHANGED <<rca_reports, document, remaining_queues, current_rca_step, rca_data,
                   driver_text_area_key, widgets, files, rerun, signals, fetches, failures>>

Next ==
    \/ ScriptRun
    \/ ManualRerun
    \/ \E raw \in SelectorTexts : SelectQueueInput(raw)
    \/ \E field \in EmailFields \cup LiveFields \cup DemandFields :
          \E text \in NumberTexts : EditInput(field, text)
    \/ \E driver_input \in DriverTexts : AddAction(driver_input)
    \/ \E fail \in FailPoints : CompleteRca(fail)
    \/ ProcessNext
    \/ Finalize
    \/ StartOver
    \/ StartNewSession
    \/ \E sheet \in Sheets : BackendChange(sheet)

Spec == Init /\ [][Next]_vars

-----------------------------------------------------------------------------
(* Properties of the session.                                              *)

RECURSIVE NonBlank(_)
NonBlank(doc) ==
    IF doc = <<>> THEN <<>>
    ELSE IF Head(doc).style = "Normal" /\ Head(doc).text = <<>> /\ Head(doc).picture = "none"
         THEN NonBlank(Tail(doc))
         ELSE <<Head(doc)>> \o NonBlank(Tail(doc))

BulletOf(line) == [style |-> "List Bullet", text |-> line, picture |-> "none"]
HeadingOf(name) == [style |-> "Heading 2", text |-> <<name>>, picture |-> "none"]

(* The section of one completed record: the title, then the Supply, Demand *)
(* and Drivers groups.                                                     *)
ExpectedSection(r) ==
    << [style |-> "Heading 1", text |-> <<" ">> \o Upper(r.title_skill), picture |-> r.report_color],
       HeadingOf("Supply") >>
    \o [i \in 1..Len(r.supply_word_lines) |-> BulletOf(r.supply_word_lines[i])]
    \o << HeadingOf("Demand"),
          BulletOf(<<"Forecast volume was ">> \o r.forecasted_volume_str \o <<".">>),
          BulletOf(<<"Actual volume was ">> \o r.actual_volume_str \o <<".">>),
          BulletOf(r.variance_text),
          HeadingOf("Main Drivers & Mitigation actions") >>
    \o [i \in 1..Len(r.drivers_list) |-> BulletOf(r.drivers_list[i])]

RECURSIVE ExpectedDocument(_)
ExpectedDocument(reports) ==
    IF reports = <<>> THEN <<>>
    ELSE ExpectedSection(Head(reports)) \o ExpectedDocument(Tail(reports))

(* C1: the document holds exactly the sections of the completed records,   *)
(* one title section per record of rca_reports, in completion order, each  *)
(* with the record's own supply lines, demand lines and drivers, and no    *)
(* section of any other queue (blank separator paragraphs aside).          *)
C1_DocumentMatchesCompletedRecords ==
    NonBlank(document) = ExpectedDocument(rca_reports)

(* C2 as claimed: an active record is present if and only if the step is   *)
(* collect_inputs or review_rca.                                           *)
C2_ActiveRecordIffCollectOrReview ==
    (rca_data # None) <=> (current_rca_step \in {"collect_inputs", "review_rca"})

(* No queue of this session's catalog has been selected yet. *)
NothingSelectedYet ==
    \/ remaining_queues = None
    \/ Len(fetches) = 1 /\ remaining_queues[1] = fetches[1]

(* C2 as amended: an active record is present whenever the step is         *)
(* collect_inputs or review_rca, and it stays in the session state after   *)
(* "process next" and in finish: it is absent exactly as long as no queue  *)
(* has been selected since the session started or was reset.               *)
C2_ActiveRecordPresence ==
    /\ current_rca_step \in {"collect_inputs", "review_rca"} => rca_data # None
    /\ (rca_data = None) <=> NothingSelectedYet

C2_Witness ==
    /\ current_rca_step = "select_queue"
    /\ ~rerun
    /\ rca_data # None
    /\ Len(rca_reports) = 1

(* A record that may be handed to the report. *)
Eligible(d) ==
    Len(d.supply_word_lines) > 0 /\ Len(d.variance_text) > 0 /\ Len(d.drivers_list) >= 1

(* C3: a click on "complete" with empty supply lines, an empty variance    *)
(* text or no driver is rejected: the step, the completed records, the     *)
(* document and the remaining queues stay as they are.                     *)
C3_CompleteNeedsAllSections ==
    [][\A fail \in FailPoints :
          (CompleteRca(fail) /\ ~Eligible(rca_data[1])) =>
              /\ "incomplete" \in signals'
              /\ current_rca_step' = current_rca_step
              /\ rca_reports' = rca_reports
              /\ document' = document
              /\ remaining_queues' = remaining_queues]_vars

C3_Witness ==
    /\ current_rca_step = "collect_inputs"
    /\ "incomplete" \in signals
    /\ rca_data[1].supply_word_lines # <<>>
    /\ rca_data[1].variance_text # <<>>
    /\ rca_data[1].drivers_list = <<>>

(* C4: every step from collect_inputs to review_rca appends exactly the    *)
(* active record to the completed records.                                 *)
C4_CompleteAppendsOneRecord ==
    [][(current_rca_step = "collect_inputs" /\ current_rca_step' = "review_rca") =>
          rca_reports' = Append(rca_reports, rca_data'[1])]_vars

(* What the texts of SelectorTexts say: a number, "finish", or neither. *)
SelectorNumbers ==
    { << <<"0">>, 0 >>, << <<"-", "1">>, 0 - 1 >>, << <<"1">>, 1 >>,
      << <<" ", "2">>, 2 >>, << <<"3">>, 3 >>, << <<"4">>, 4 >> }
SelectorOther == { <<"x">> }

(* The selection leaves what must survive a rejected input as it is. *)
SelectionRejected ==
    /\ remaining_queues' = remaining_queues
    /\ current_rca_step' = current_rca_step
    /\ rca_reports' = rca_reports
    /\ document' = document
    /\ rca_data' = rca_data
    /\ ~rerun'

(* C5: in select_queue with n remaining queues, the input k, 1 <= k <= n,  *)
(* removes exactly the k-th entry, keeps the others in order, makes the    *)
(* active record from the removed entry and moves to collect_inputs.       *)
C5_ValidIndexSelectsQueue ==
    [][\A p \in SelectorNumbers :
          LET list == remaining_queues[1]
              k == p[2]
          IN  (SelectQueueInput(p[1]) /\ 1 <= k /\ k <= Len(list)) =>
                  /\ remaining_queues' # None
                  /\ Len(remaining_queues'[1]) = Len(list) - 1
                  /\ \A i \in 1..(Len(list) - 1) :
                        remaining_queues'[1][i] = IF i < k THEN list[i] ELSE list[i + 1]
                  /\ rca_data' # None
                  /\ rca_data'[1].title_skill = list[k].QueueName
                  /\ rca_data'[1].report_color = list[k].StatusColor
                  /\ rca_data'[1].selected_row_index_in_range = list[k].RangeIndex
                  /\ current_rca_step' = "collect_inputs"]_vars

(* The second of three queues was selected. *)
C5_Witness ==
    /\ current_rca_step = "collect_inputs"
    /\ Len(fetches) = 1
    /\ Len(fetches[1]) = 3
    /\ remaining_queues = Some(<<fetches[1][1], fetches[1][3]>>)
    /\ rca_data[1].title_skill = fetches[1][2].QueueName

(* C6: a number outside 1..n, or an input that is neither a number nor     *)
(* "finish", changes neither the remaining queues, the step, the completed *)
(* records nor the document, and creates no active record.                 *)
C6_InvalidSelectionRejected ==
    [][/\ \A p \in SelectorNumbers :
             (SelectQueueInput(p[1])
                 /\ ~(1 <= p[2] /\ p[2] <= Len(remaining_queues[1]))) => SelectionRejected
       /\ \A raw \in SelectorOther : SelectQueueInput(raw) => SelectionRejected]_vars

C6_Witness ==
    /\ current_rca_step = "select_queue"
    /\ widgets.queue_selector_text_input = <<"-", "1">>
    /\ "invalid_number" \in signals
    /\ Len(remaining_queues[1]) = 2

RECURSIVE IsSubSeq(_, _)
IsSubSeq(s, t) ==
    IF s = <<>> THEN TRUE
    ELSE IF t = <<>> THEN FALSE
    ELSE IF Head(s) = Head(t) THEN IsSubSeq(Tail(s), Tail(t))
    ELSE IsSubSeq(s, Tail(t))

(* C7: between resets the catalog is read at most once, and the remaining  *)
(* queues are always what is left of that one read, whatever the backend   *)
(* holds later and also when the read gave an empty list.                  *)
C7_CatalogReadOnce ==
    /\ Len(fetches) <= 1
    /\ remaining_queues # None =>
          /\ Len(fetches) = 1
          /\ IsSubSeq(remaining_queues[1], fetches[1])

(* The one read gave nothing, the backend holds queues now, and the        *)
(* session still has its empty list.                                       *)
C7_Witness ==
    /\ fetches = << <<>> >>
    /\ backend = "B"
    /\ remaining_queues = Some(<<>>)
    /\ "stopped" \in signals

(* The session was reset. *)
WasReset ==
    /\ rca_reports' = <<>>
    /\ document' = <<>>
    /\ remaining_queues' = None
    /\ rca_data' = None

(* C8: the step changes only from select_queue to collect_inputs or        *)
(* finish, from collect_inputs to review_rca, from review_rca to           *)
(* select_queue or finish, and by a reset from review_rca or finish to     *)
(* select_queue.                                                           *)
C8_OnlyListedTransitions ==
    [][\/ current_rca_step' = current_rca_step
       \/ <<current_rca_step, current_rca_step'>> \in
              { <<"select_queue", "collect_inputs">>, <<"select_queue", "finish">>,
                <<"collect_inputs", "review_rca">>, <<"review_rca", "select_queue">>,
                <<"review_rca", "finish">> }
       \/ /\ current_rca_step \in {"review_rca", "finish"}
          /\ current_rca_step' = "select_queue"
          /\ WasReset]_vars

C8_Witness ==
    /\ current_rca_step = "finish"
    /\ Len(rca_reports) = 2
    /\ "finish_page" \in signals

(* C9: the finish page offers the download exactly when at least one       *)
(* record is in the completed records, and says there is no report         *)
(* exactly when there is none.                                             *)
C9_DownloadIffCompleted ==
    (current_rca_step = "finish" /\ "finish_page" \in signals) =>
        /\ ("download" \in signals) <=> (Len(rca_reports) >= 1)
        /\ ("no_report" \in signals) <=> (Len(rca_reports) = 0)

(* "finish" was typed at the first prompt. *)
C9_Witness ==
    /\ current_rca_step = "finish"
    /\ "no_report" \in signals
    /\ rca_data = None
    /\ rca_reports = <<>>

-----------------------------------------------------------------------------
(* The variance computation on its own: a session that has selected the    *)
(* live-channel queue "Sales" of sheet A and whose user edits the four     *)
(* numeric inputs of the form.                                             *)

(* The largest whole number the user types here. *)
MaxNum == 1

(* str(n) for an integer n. *)
IntText(n) == IF n < 0 THEN <<"-">> \o NatStr(0 - n) ELSE NatStr(n)

(* The numeric texts of this specification with their values num / den.    *)
(* On every pair of them CPython's double arithmetic and the exact         *)
(* arithmetic of VarianceFormatted give the same text.                     *)
VarianceInputs ==
    { <<IntText(n), n, 1>> : n \in (0 - MaxNum)..MaxNum }
    \cup { << <<"1", "0", "0">>, 100, 1 >>, << <<"1", "2", "0">>, 120, 1 >>,
           << <<"1", ".", "5">>, 15, 10 >>, << <<"3", "2">>, 32, 1 >>,
           << <<"3", "3">>, 33, 1 >> }

VarianceTexts == { p[1] : p \in VarianceInputs } \cup { <<>>, <<"x">> }

SalesOfSheetA == get_all_relevant_queues_from_sheet(SheetA)[2]

(* The state of Spec after the first run on sheet A and the input " 2". *)
InitVariance ==
    /\ rca_reports = <<>>
    /\ document = <<>>
    /\ remaining_queues = Some(Pop(get_all_relevant_queues_from_sheet(SheetA), 1))
    /\ current_rca_step = "collect_inputs"
    /\ rca_data = Some(NewRcaData(SalesOfSheetA))
    /\ driver_text_area_key = 0
    /\ widgets = [FreshWidgets EXCEPT !.queue_selector_text_input = <<" ", "2">>]
    /\ files = {}
    /\ rerun = TRUE
    /\ signals = {"select_form"}
    /\ backend = "A"
    /\ fetches = <<get_all_relevant_queues_from_sheet(SheetA)>>
    /\ failures = 0

NextVariance ==
    \/ ScriptRun
    \/ \E field \in LiveFields \cup DemandFields :
          \E text \in VarianceTexts : EditInput(field, text)

SpecVariance == InitVariance /\ [][NextVariance]_vars

(* The text is "Incoming volume was <p>% higher|lower than forecasted.",   *)
(* with <p> a decimal number with two decimals that is the nearest to      *)
(* abs(actual / required - 1) * 100, and "higher" exactly when actual >    *)
(* required.  required and actual are <<text, num, den>>.                  *)
ReportsVariance(t, required, actual) ==
    LET n == Len(t)
        whole == SubSeq(t, 2, n - 5)
        hundredths == 100 * DigitsVal(whole) + 10 * DigitVal(t[n - 3]) + DigitVal(t[n - 2])
        P == 10000 * Abs(actual[2] * required[3] - required[2] * actual[3])
        Q == Abs(required[2] * actual[3])
        higher == actual[2] * required[3] > required[2] * actual[3]
    IN  /\ n >= 7
        /\ t[1] = "Incoming volume was "
        /\ whole # <<>> /\ AllDigits(whole)
        /\ Len(whole) > 1 => whole[1] # "0"
        /\ t[n - 4] = "."
        /\ IsDigit(t[n - 3]) /\ IsDigit(t[n - 2])
        /\ t[n - 1] = "%"
        /\ 2 * Abs(hundredths * Q - P) <= Q
        /\ t[n] = IF higher THEN " higher than forecasted." ELSE " lower than forecasted."

IsNumeric(text) == \E p \in VarianceInputs : p[1] = text
ValueOf(text) == CHOOSE p \in VarianceInputs : p[1] = text

(* C10: for numeric inputs with a non-zero required value, the demand      *)
(* variance text and the live-channel result line report                   *)
(* abs(actual / required - 1) as a percentage with two decimals, "higher"  *)
(* iff actual > required and "lower" otherwise, also when they are equal;  *)
(* forecast 100 and actual 120 give "20.00% higher".                       *)
C10_VarianceText ==
    ("collect_form" \in signals /\ ~rerun) =>
        LET forecast == widgets.forecasted_volume
            actual == widgets.actual_volume_input[1]
            required_hours == widgets.req_live_hours
            actual_hours == widgets.actual_live_hours
        IN  /\ (IsNumeric(forecast) /\ IsNumeric(actual) /\ ValueOf(forecast)[2] # 0) =>
                   /\ ReportsVariance(rca_data[1].variance_text,
                                      ValueOf(forecast), ValueOf(actual))
                   /\ (ValueOf(forecast)[2] = 100 /\ ValueOf(actual)[2] = 120) =>
                          rca_data[1].variance_text =
                              <<"Incoming volume was ", "2", "0", ".", "0", "0", "%",
                                " higher than forecasted.">>
            /\ (IsNumeric(required_hours) /\ IsNumeric(actual_hours)
                    /\ ValueOf(required_hours)[2] # 0) =>
                   /\ Len(rca_data[1].supply_word_lines) = 3
                   /\ ReportsVariance(rca_data[1].supply_word_lines[3],
                                      ValueOf(required_hours), ValueOf(actual_hours))

(* Forecast 100 and actual 120 in the demand section, and equal hours in   *)
(* the supply section.                                                     *)
C10_Witness ==
    /\ "collect_form" \in signals /\ ~rerun
    /\ widgets.forecasted_volume = <<"1", "0", "0">>
    /\ widgets.actual_volume_input = Some(<<"1", "2", "0">>)
    /\ rca_data[1].variance_text =
           <<"Incoming volume was ", "2", "0", ".", "0", "0", "%", " higher than forecasted.">>
    /\ widgets.req_live_hours = <<"1">>
    /\ widgets.actual_live_hours = <<"1">>
    /\ rca_data[1].supply_word_lines[3] =
           <<"Incoming volume was ", "0", ".", "0", "0", "%", " lower than forecasted.">>

-----------------------------------------------------------------------------
(* A text that float() accepts / rejects, among the texts of SpecVariance. *)
ParsesToZero(text) == float(text).ok /\ float(text).num = 0
DoesNotParse(text) == text # <<>> /\ ~float(text).ok

ZeroForecastText == <<"Cannot calculate variance: Forecasted volume is zero.">>
ZeroHoursText ==
    <<"Cannot calculate variance: Required hours to handle forecasted volume is zero.">>
InvalidDemandText ==
    <<"Error: Invalid numeric input for forecasted or actual volume. Cannot calculate variance.">>
InvalidHoursText == <<"Error: Invalid numeric input. Cannot calculate variance.">>

(* C11: when the denominator (forecast volume, required hours) parses to   *)
(* exactly zero, the text is the fixed zero-denominator message whatever   *)
(* number the actual value is, and no division is made; when one of the    *)
(* two inputs is not a number the text is the error message, and the       *)
(* collect_inputs step goes on: the form is shown and the step is kept.    *)
C11_ZeroDenominatorAndParseError ==
    ("collect_form" \in signals /\ ~rerun) =>
        LET forecast == widgets.forecasted_volume
            actual == widgets.actual_volume_input[1]
            required_hours == widgets.req_live_hours
            actual_hours == widgets.actual_live_hours
        IN  /\ current_rca_step = "collect_inputs"
            /\ (ParsesToZero(forecast) /\ float(actual).ok) =>
                   rca_data[1].variance_text = ZeroForecastText
            /\ (ParsesToZero(required_hours) /\ float(actual_hours).ok) =>
                   /\ Len(rca_data[1].supply_word_lines) = 3
                   /\ rca_data[1].supply_word_lines[3] = ZeroHoursText
            /\ (forecast # <<>> /\ actual # <<>>
                    /\ (DoesNotParse(forecast) \/ DoesNotParse(actual))) =>
                   rca_data[1].variance_text = InvalidDemandText
            /\ (required_hours # <<>> /\ actual_hours # <<>>
                    /\ (DoesNotParse(required_hours) \/ DoesNotParse(actual_hours))) =>
                   /\ Len(rca_data[1].supply_word_lines) = 3
                   /\ rca_data[1].supply_word_lines[3] = InvalidHoursText
            /\ rca_data[1].variance_text # ZeroDivisionError
            /\ \A i \in DOMAIN rca_data[1].supply_word_lines :
                   rca_data[1].supply_word_lines[i] # ZeroDivisionError

(* Required hours 0 with actual hours 120 in the supply section, and a     *)
(* forecast that is not a number in the demand section.                    *)
C11_Witness ==
    /\ "collect_form" \in signals /\ ~rerun
    /\ widgets.req_live_hours = <<"0">>
    /\ widgets.actual_live_hours = <<"1", "2", "0">>
    /\ rca_data[1].supply_word_lines[3] = ZeroHoursText
    /\ widgets.forecasted_volume = <<"x">>
    /\ widgets.actual_volume_input = Some(<<"1">>)
    /\ rca_data[1].variance_text = InvalidDemandText

-----------------------------------------------------------------------------
(* get_all_relevant_queues_from_sheet on its own: the health-report range  *)
(* holds any rows built from the names and status cells below, and the     *)
(* function is called on it.  Here `backend` is the sheet itself.          *)

(* The largest number of rows of the range, and of calls on it. *)
MaxRows == 2
MaxCalls == 2

(* "U+1F534" and "U+1F7E1" are the red and the yellow circle, one          *)
(* character each; the four-character texts are how the source file        *)
(* spells the keys of status_map.                                          *)
CatalogNames ==
    { <<>>, <<" ">>, <<" ", "O", "p", "s">>, <<"V", "i", "p", " ">>,
      <<"L", "i", "v", "e", " ", "Q", "u", "e", "u", "e", "s">> }

CatalogStatuses ==
    { <<"R", "e", "d", " ">>, <<"a", "m", "b", "e", "r">>, <<"g", "r", "e", "e", "n">>,
      <<"x">>, <<>>, <<"U+1F534">>, <<"U+1F7E1">>, <<"d-", "Y:", ",,", "'">> }

(* A row with a status cell, and the row gspread returns when the cells    *)
(* after the name are empty.                                               *)
CatalogRows ==
    { Row(name, status) : name \in CatalogNames, status \in CatalogStatuses \ {<<>>} }
    \cup { IF name = <<>> THEN <<>> ELSE <<name>> : name \in CatalogNames }

CatalogSheets ==
    { [ok |-> TRUE, rows |-> rows] :
        rows \in UNION { [1..n -> CatalogRows] : n \in 0..MaxRows } }
    \cup { SheetDown }

InitCatalog ==
    /\ InitSession
    /\ files = {}
    /\ backend \in CatalogSheets

(* Lines 252-259: the call of get_all_relevant_queues_from_sheet. *)
ReadCatalog ==
    /\ Len(fetches) < MaxCalls
    /\ fetches' = Append(fetches, get_all_relevant_queues_from_sheet(backend))
    /\ remaining_queues' = Some(get_all_relevant_queues_from_sheet(backend))
    /\ UNCHANGED <<rca_reports, document, current_rca_step, rca_data, driver_text_area_key,
                   widgets, files, rerun, signals, backend, failures>>

NextCatalog == ReadCatalog

SpecCatalog == InitCatalog /\ [][NextCatalog]_vars

(* The colour a status cell stands for: trimmed, case-insensitive, as the  *)
(* circle glyph or as the word.                                            *)
RedGlyphs == { <<"U+1F534">>, Lower(<<"d-", "Y:", ",,", "'">>) }
AmberGlyphs == { <<"U+1F7E1">>, Lower(<<"d-", "Y:", "Y:", "!">>) }

FlagOf(status) ==
    LET k == Strip(Lower(status)) IN
    IF k \in RedGlyphs \cup { <<"r", "e", "d">> } THEN "red"
    ELSE IF k \in AmberGlyphs \cup { <<"a", "m", "b", "e", "r">> } THEN "amber"
    ELSE "none"

IsFlaggedRow(row) ==
    /\ Len(row) > STATUS_COL_INDEX_IN_RANGE
    /\ Strip(Cell(row, QUEUE_COL_INDEX_IN_RANGE)) # <<>>
    /\ Lower(Strip(Cell(row, QUEUE_COL_INDEX_IN_RANGE))) \notin HeaderLabels
    /\ FlagOf(Cell(row, STATUS_COL_INDEX_IN_RANGE)) \in {"red", "amber"}

(* `list` holds exactly the flagged rows of `rows`, in row order, each     *)
(* with its trimmed name, its colour and its 0-based position.             *)
IsFlaggedListOf(list, rows) ==
    LET flagged == {i \in DOMAIN rows : IsFlaggedRow(rows[i])} IN
    /\ Len(list) = Cardinality(flagged)
    /\ \A k \in DOMAIN list :
          /\ list[k].RangeIndex + 1 \in flagged
          /\ list[k].QueueName = Strip(Cell(rows[list[k].RangeIndex + 1], QUEUE_COL_INDEX_IN_RANGE))
          /\ list[k].StatusColor = FlagOf(Cell(rows[list[k].RangeIndex + 1], STATUS_COL_INDEX_IN_RANGE))
    /\ \A k \in 1..(Len(list) - 1) : list[k].RangeIndex < list[k + 1].RangeIndex

(* C12: the list read from the range holds exactly the rows with a         *)
(* non-blank, non-header trimmed name whose status cell, trimmed and       *)
(* without regard to case, is the red or amber glyph or word; it is in row *)
(* order with 0-based row positions, and a second call on the same range   *)
(* returns the same list.                                                  *)
C12_FlaggedQueuesExactly ==
    /\ \A n \in DOMAIN fetches : IsFlaggedListOf(fetches[n], backend.rows)
    /\ \A n, m \in DOMAIN fetches : fetches[n] = fetches[m]

(* The same statement for status cells that hold the word only: the part   *)
(* of C12 the code meets.                                                  *)
HasGlyphStatus(rows) ==
    \E i \in DOMAIN rows :
        /\ Len(rows[i]) > STATUS_COL_INDEX_IN_RANGE
        /\ Strip(Lower(Cell(rows[i], STATUS_COL_INDEX_IN_RANGE))) \in RedGlyphs \cup AmberGlyphs

FlaggedQueuesExactlyForWords ==
    ~HasGlyphStatus(backend.rows) => C12_FlaggedQueuesExactly

-----------------------------------------------------------------------------
(* get_actual_volume_from_sheet on its own: the volume sheet holds a       *)
(* header row and any data rows built from the cells below, and the        *)
(* function is called with a queue name.  Here `backend` is the pair of    *)
(* the sheet and the name.                                                 *)

(* The largest number of data rows of the volume sheet. *)
MaxVolumeRows == 2

VolumeValueCells == { <<"1", "2", "0">>, <<" ", "9">> }
VolumeNameCells == { <<"O", "p", "s">>, <<" ", "o", "p", "s", " ">>, <<"V", "i", "p">> }

(* Rows with both columns, a row that ends with the value column, and a    *)
(* row that ends before it.                                                *)
VolumeRows ==
    { <<E, E, value, name>> : value \in VolumeValueCells, name \in VolumeNameCells }
    \cup { <<E, E, <<"7">>>>, <<<<"n">>>> }

VolumeHeader == <<<<"d">>, <<"x">>, <<"v">>, <<"q">>>>

VolumeSheets ==
    { [ok |-> TRUE, rows |-> <<VolumeHeader>> \o rows] :
        rows \in UNION { [1..n -> VolumeRows] : n \in 0..MaxVolumeRows } }
    \cup { SheetEmpty, SheetDown }

LookupNames == { <<"O", "p", "s">>, <<"O", "P", "S", " ">>, <<"C", "h", "a", "t">> }

InitVolume ==
    /\ InitSession
    /\ files = {}
    /\ backend \in [sheet : VolumeSheets, name : LookupNames]

(* Lines 385-392: the call of get_actual_volume_from_sheet. *)
LookupVolume ==
    /\ Len(fetches) < MaxCalls
    /\ fetches' = Append(fetches, get_actual_volume_from_sheet(backend.sheet, backend.name))
    /\ UNCHANGED <<rca_reports, document, remaining_queues, current_rca_step, rca_data,
                   driver_text_area_key, widgets, files, rerun, signals, backend, failures>>

NextVolume == LookupVolume

SpecVolume == InitVolume /\ [][NextVolume]_vars

(* Row i of the sheet is a data row whose name cell, trimmed, is the       *)
(* trimmed name without regard to case.                                    *)
NamesQueue(rows, i, name) ==
    /\ i >= 2
    /\ Len(rows[i]) > VOLUME_QUEUE_COL_INDEX
    /\ Lower(Strip(Cell(rows[i], VOLUME_QUEUE_COL_INDEX))) = Lower(Strip(name))

(* The answer for `name`: the trimmed value cell of the first row that     *)
(* names it, or None when no row does.                                     *)
FirstMatchValue(rows, name) ==
    LET matches == {i \in DOMAIN rows : NamesQueue(rows, i, name)} IN
    IF matches = {} THEN None
    ELSE Some(Strip(Cell(rows[CHOOSE i \in matches : \A j \in matches : i <= j],
                         VOLUME_VALUE_COL_INDEX)))

(* C13: the lookup returns the value cell of the first data row whose      *)
(* trimmed name is the trimmed queue name without regard to case, and      *)
(* None only when no such row exists or the sheet is empty; the rows       *)
(* before that row, of any length and content, do not matter.              *)
C13_FirstMatchingRowValue ==
    \A n \in DOMAIN fetches :
        backend.sheet.ok => fetches[n] = FirstMatchValue(backend.sheet.rows, backend.name)

(* The same statement for sheets whose data rows all have a name column    *)
(* and for names without surrounding blanks: the part of C13 the code      *)
(* meets.                                                                  *)
FirstMatchingRowValueOnFullRows ==
    ( /\ \A i \in DOMAIN backend.sheet.rows :
            Len(backend.sheet.rows[i]) # VOLUME_QUEUE_COL_INDEX
      /\ Strip(backend.name) = backend.name )
    => C13_FirstMatchingRowValue

-----------------------------------------------------------------------------
(* A run of the select_queue step that finds the queue list empty: the     *)
(* cached list is empty, or the list is read in this run and is empty.     *)
RunsOnEmptyList ==
    /\ current_rca_step = "select_queue"
    /\ backend' = backend
    /\ \/ remaining_queues = Some(<<>>)
       \/ remaining_queues = None /\ remaining_queues' = Some(<<>>)

(* C14: a run of select_queue on an empty queue list moves the session to  *)
(* finish when a record has been completed; otherwise it stops with the    *)
(* step unchanged, the document empty and no download offered.             *)
C14_EmptyListFinishesOrStops ==
    [][ RunsOnEmptyList =>
            IF Len(rca_reports) > 0
            THEN current_rca_step' = "finish"
            ELSE /\ current_rca_step' = "select_queue"
                 /\ document' = <<>>
                 /\ rca_reports' = <<>>
                 /\ "download" \notin signals' ]_vars

(* The run on an empty list, with no record completed, has stopped. *)
C14_Witness ==
    /\ current_rca_step = "select_queue"
    /\ remaining_queues = Some(<<>>)
    /\ rca_reports = <<>>
    /\ document = <<>>
    /\ ~rerun
    /\ "no_document" \in signals

-----------------------------------------------------------------------------
(* A step that clears the session: only "Start Over" on the review page    *)
(* and "Start New Session" on the finish page leave nothing shown.         *)
ResetStep ==
    /\ current_rca_step \in {"review_rca", "finish"}
    /\ signals # {}
    /\ signals' = {}

(* The first run of select_queue of a session: the cache is unset. *)
FirstSelectRun ==
    /\ current_rca_step = "select_queue"
    /\ remaining_queues = None
    /\ signals' # {}

(* C15: "Start Over" and "Start New Session" leave the session as it       *)
(* starts, in step select_queue with no active record, no completed        *)
(* record, an empty document and an unset queue cache, and the next run    *)
(* of select_queue reads the catalog from the sheet again.                 *)
C15_ResetRestoresInitialSession ==
    [][ /\ ResetStep =>
              /\ current_rca_step' = "select_queue"
              /\ rca_data' = None
              /\ rca_reports' = <<>>
              /\ document' = <<>>
              /\ remaining_queues' = None
              /\ driver_text_area_key' = 0
              /\ widgets' = FreshWidgets
              /\ rerun'
        /\ FirstSelectRun =>
              /\ fetches' = <<get_all_relevant_queues_from_sheet(Sheet(backend))>>
              /\ remaining_queues' # None ]_vars

(* A session that was reset after an append had written to the document    *)
(* and that has read the catalog again.                                    *)
C15_Witness ==
    /\ failures = 1
    /\ rca_data = None
    /\ current_rca_step = "select_queue"
    /\ rca_reports = <<>>
    /\ document = <<>>
    /\ Len(fetches) = 1
    /\ remaining_queues = Some(fetches[1])
    /\ fetches[1] # <<>>

-----------------------------------------------------------------------------
(* The channel classification on its own: a session that has selected a    *)
(* queue found at any row of the health-report range, and whose user       *)
(* edits the inputs of the form.                                           *)

(* The range "C8:J32" has 25 rows: the last Range Index is 24. *)
LAST_RANGE_INDEX == 24

ChannelItems ==
    [ QueueName   : { <<"O", "p", "s">>, <<"V", "i", "p">> },
      StatusColor : {"red", "amber"},
      RangeIndex  : 0..LAST_RANGE_INDEX ]

(* The state of a session after its first run found one flagged queue and  *)
(* the user typed "1".                                                     *)
InitChannel ==
    \E item \in ChannelItems :
        /\ rca_reports = <<>>
        /\ document = <<>>
        /\ remaining_queues = Some(<<>>)
        /\ current_rca_step = "collect_inputs"
        /\ rca_data = Some(NewRcaData(item))
        /\ driver_text_area_key = 0
        /\ widgets = [FreshWidgets EXCEPT !.queue_selector_text_input = <<"1">>]
        /\ files = {}
        /\ rerun = TRUE
        /\ signals = {"select_form"}
        /\ backend = "empty"
        /\ fetches = << <<item>> >>
        /\ failures = 0

NextChannel ==
    \/ ScriptRun
    \/ \E field \in EmailFields \cup LiveFields \cup DemandFields :
          \E text \in NumberTexts : EditInput(field, text)

SpecChannel == InitChannel /\ [][NextChannel]_vars

InEmailBand(i) == i \in 1..13
InLiveBand(i) == i \in 17..24

(* C16: in collect_inputs the channel type depends on the Range Index of   *)
(* the record only: 1..13 is email, 17..24 is the live channel, any other  *)
(* index is the live channel with the unexpected-row warning, and the      *)
(* warning is shown for no index of the two bands.                         *)
C16_ChannelFromRowIndex ==
    ("collect_form" \in signals /\ ~rerun) =>
        LET i == rca_data[1].selected_row_index_in_range IN
        /\ InEmailBand(i) => rca_data[1].rca_type = "emails"
        /\ InLiveBand(i) => rca_data[1].rca_type = "phone"
        /\ (~InEmailBand(i) /\ ~InLiveBand(i)) =>
               rca_data[1].rca_type = "phone" /\ "unexpected_row" \in signals
        /\ (InEmailBand(i) \/ InLiveBand(i)) => "unexpected_row" \notin signals
        /\ RenderedFields =
               DemandFields \cup (IF InEmailBand(i) THEN EmailFields ELSE LiveFields)

(* The form of a queue found at row 14, between the two bands. *)
C16_Witness ==
    /\ "collect_form" \in signals /\ ~rerun
    /\ rca_data[1].selected_row_index_in_range = 14
    /\ rca_data[1].rca_type = "phone"
    /\ "unexpected_row" \in signals
    /\ widgets.req_live_hours = <<"8">>

-----------------------------------------------------------------------------
(* The numeric inputs the supply section of record d requires. *)
SupplyFields(d) == IF d.rca_type = "emails" THEN EmailFields ELSE LiveFields

(* C17: after every run of collect_inputs the supply lines of the active   *)
(* record are either empty or complete: they are written, three lines of   *)
(* them, exactly when every numeric input of the record's channel (three   *)
(* for email, two for the live channel) is non-empty in that run, and      *)
(* they are empty after a run with a blank input, whatever they were       *)
(* before.                                                                 *)
C17_SupplyLinesAllOrNothing ==
    [][ "collect_form" \in signals' =>
            LET d == rca_data'[1]
                filled == \A f \in SupplyFields(d) : widgets'[f] # <<>>
            IN  /\ Len(d.supply_word_lines) \in {0, 3}
                /\ d.supply_word_lines # <<>> <=> filled
                /\ \A k \in DOMAIN d.supply_word_lines : d.supply_word_lines[k] # <<>>
                /\ "fill_supply" \in signals' <=> ~filled ]_vars

(* An email record with two of its three inputs filled. *)
C17_Witness ==
    /\ "collect_form" \in signals /\ ~rerun
    /\ rca_data[1].rca_type = "emails"
    /\ widgets.req_email_hours = <<"8">>
    /\ widgets.req_email_new_demand = <<"8">>
    /\ widgets.actual_email_hours = <<>>
    /\ rca_data[1].supply_word_lines = <<>>
    /\ "fill_supply" \in signals

-----------------------------------------------------------------------------
(* The last paragraphs of the document are the Drivers heading and one     *)
(* bullet per entry of `drivers`, in order.                                *)
EndsWithDrivers(doc, drivers) ==
    LET n == Len(drivers) IN
    /\ Len(doc) > n
    /\ doc[Len(doc) - n] = HeadingOf("Main Drivers & Mitigation actions")
    /\ \A k \in 1..n : doc[Len(doc) - n + k] = BulletOf(drivers[k])

-----------------------------------------------------------------------------
IsPrefix(s, t) == Len(s) <= Len(t) /\ SubSeq(t, 1, Len(s)) = s

(* A click on "Complete RCA & Add to Report" with all three sections filled. *)
AcceptedComplete ==
    /\ \E fail \in FailPoints : CompleteRca(fail)
    /\ CanComplete(rca_data'[1])

(* C19: between resets the document only grows: in every step that is not *)
(* a reset the document before the step is a prefix of the document after  *)
(* it, and only an accepted "complete" changes it; a run of the finish     *)
(* step, which saves the document for the download, leaves it as it is,    *)
(* however often it runs.                                                  *)
C19_DocumentOnlyGrows ==
    [][ ~ResetStep =>
            /\ IsPrefix(document, document')
            /\ document' # document => AcceptedComplete
            /\ current_rca_step = "finish" => document' = document ]_vars

(* The finish page offers the download of a document with one section. *)
C19_Witness ==
    /\ current_rca_step = "finish"
    /\ ~rerun
    /\ "download" \in signals
    /\ Len(rca_reports) = 1
    /\ document = ExpectedSection(rca_reports[1])

-----------------------------------------------------------------------------
(* C20: after every call of process_single_rca_to_document, also when a    *)
(* call in it raises (the separator, the creation of the marker image,     *)
(* its embedding, a later section), the marker image file of the record    *)
(* does not exist and the call has returned to the collect_inputs step     *)
(* without raising.                                                        *)
C20_MarkerRemovedAndNoRaise ==
    [][ AcceptedComplete =>
            /\ rca_data'[1].report_color \notin files'
            /\ "exception" \notin signals'
            /\ current_rca_step' = StepAfterComplete ]_vars

(* The same statement for the calls in which circle_image_path is bound    *)
(* when the finally block runs: the part of C20 the code meets.            *)
MarkerRemovedWhenPathBound ==
    [][ (AcceptedComplete /\ \E fail \in FailPoints \ {"separator", "image"} : CompleteRca(fail)) =>
            /\ rca_data'[1].report_color \notin files'
            /\ "exception" \notin signals'
            /\ current_rca_step' = StepAfterComplete ]_vars

-----------------------------------------------------------------------------
(* The queue names of a list of catalog entries, and of completed records. *)
NamesOf(list) == { list[k].QueueName : k \in DOMAIN list }
TitlesOf(reports) == { reports[k].title_skill : k \in DOMAIN reports }

(* The queue being collected, if any. *)
Collecting == IF current_rca_step = "collect_inputs" THEN {rca_data[1].title_skill} ELSE {}

(* C21: within a session every queue of the catalog read is in exactly one *)
(* of the remaining queues, the record being collected and the completed   *)
(* records, so the three sizes add up to the size of the catalog, and no   *)
(* queue is completed twice.                                               *)
C21_NoQueueLostOrDuplicated ==
    (fetches # <<>> /\ remaining_queues # None) =>
        LET snapshot == fetches[1]
            remaining == remaining_queues[1]
        IN  /\ Len(remaining) + Len(rca_reports) + Cardinality(Collecting) = Len(snapshot)
            /\ NamesOf(remaining) \cup TitlesOf(rca_reports) \cup Collecting = NamesOf(snapshot)
            /\ NamesOf(remaining) \cap TitlesOf(rca_reports) = {}
            /\ NamesOf(remaining) \cap Collecting = {}
            /\ TitlesOf(rca_reports) \cap Collecting = {}
            /\ Cardinality(TitlesOf(rca_reports)) = Len(rca_reports)

(* The same statement while no append has raised: the part of C21 the code *)
(* meets.                                                                  *)
NoQueueLostWithoutFailure == failures = 0 => C21_NoQueueLostOrDuplicated

-----------------------------------------------------------------------------
(* The text in the queue selector is the "finish" directive. *)
TypedFinish(w) == Lower(Strip(w.queue_selector_text_input)) = FINISH

(* C22: in step select_queue with at least one completed record the list  *)
(* of remaining queues is not empty, so the run of select_queue never      *)
(* moves to finish by itself on an empty list; the step becomes finish     *)
(* only by the "finish" text in select_queue or by "Finalize & Download    *)
(* Report" in review_rca.                                                  *)
C22_FinishOnlyByDirective ==
    [][ /\ (current_rca_step' = "select_queue" /\ Len(rca_reports') > 0) =>
               remaining_queues' # None /\ remaining_queues'[1] # <<>>
        /\ "all_processed" \notin signals'
        /\ (current_rca_step' = "finish" /\ current_rca_step # "finish") =>
               \/ current_rca_step = "select_queue" /\ TypedFinish(widgets')
               \/ current_rca_step = "review_rca" /\ "review_page" \in signals ]_vars

(* Back in select_queue after one completed record, with the list shown. *)
C22_Witness ==
    /\ current_rca_step = "select_queue"
    /\ ~rerun
    /\ Len(rca_reports) = 1
    /\ "select_form" \in signals
    /\ remaining_queues[1] # <<>>

====
